---- MODULE Spec2Model ----
(***************************************************************************)
(* State-machine model of server.js: the folder-size measurement run       *)
(* (calculateFolderSize), its two triggers (app.listen callback and the    *)
(* cron schedule), the process-wide result variable folderSizeData and the *)
(* HTTP handler that serves it.                                            *)
(*                                                                         *)
(* Node.js runs one continuation at a time, so one action is one           *)
(* continuation of an async function: it starts when the awaited call      *)
(* settles (with a response drawn from the appliance's possible answers)   *)
(* and runs up to the next await, where the next request has been issued.  *)
(* pc[r] names the await an invocation is suspended at.                    *)
(*                                                                         *)
(* Sizes are counted in blocks of 4096 bytes so that the capacity          *)
(* 6 * 1024^4 bytes fits the model checker's integers.                     *)
(***************************************************************************)
EXTENDS Integers, FiniteSets, Sequences, TLC

\* ---------------------------------------------------------------- bounds
\* the restart counter of an invocation saturates at this value
MaxRestarts == 2

\* the two places that invoke calculateFolderSize: the app.listen callback
\* (once, at start-up) and the cron schedule (every tick)
Runs == {"startup", "cron"}

\* ------------------------------------------------------------- constants
MAX_SIZE_TB == 6
\* 1024^4 bytes per TB is 2^28 blocks of 4096 bytes
MAX_SIZE_BYTES == MAX_SIZE_TB * 268435456

\* total_size values the appliance may report (in 4096-byte blocks):
\* 10^12 bytes, and 125% of the capacity
Sizes == {244140625, 2013265920}
\* opaque session and task identifiers the appliance may hand out
Sids == {"s1", "s2"}
TaskIds == {"t1", "t2"}
NoId == "undefined"

\* ------------------------------------------------------- the result cache
\* let folderSizeData = {}
EmptyObject == [f \in {} |-> 0]

InitialFolderSizeData == EmptyObject

\* (n * 5^k) % d and floor(n * 5^k / d), by long division in base 5 so that
\* no intermediate value leaves the 32-bit range (d < 2^31 / 5)
RECURSIVE Rem5(_, _, _)
Rem5(n, k, d) == IF k = 0 THEN n % d ELSE (Rem5(n, k - 1, d) * 5) % d

RECURSIVE Quot5(_, _, _)
Quot5(n, k, d) ==
    IF k = 0 THEN n \div d
    ELSE 5 * Quot5(n, k - 1, d) + (Rem5(n, k - 1, d) * 5) \div d

\* a faulty variant that clamps the ratio to 100 percent
UsedPercentage_Clamped(totalSizeBytes) ==
    IF Quot5(totalSizeBytes, 4, MAX_SIZE_BYTES \div 16) > 10000 THEN 10000
    ELSE Quot5(totalSizeBytes, 4, MAX_SIZE_BYTES \div 16)

\* (totalSizeBytes / MAX_SIZE_BYTES) * 100, as a fixed-point number with two
\* decimals (hundredths of a percent, truncated):
\* t * 10000 / MAX = t * 625 / (MAX / 16)
UsedPercentage(totalSizeBytes) == Quot5(totalSizeBytes, 4, MAX_SIZE_BYTES \div 16)

\* a faulty variant that updates the fields of the old object in place and
\* keeps the percentage of the previous measurement
NewFolderSizeData_InPlace(old, totalSizeBytes) ==
    IF old = EmptyObject
    THEN [current_size_bytes |-> totalSizeBytes,
          max_size_bytes |-> MAX_SIZE_BYTES,
          used_percentage |-> UsedPercentage(totalSizeBytes)]
    ELSE [old EXCEPT !.current_size_bytes = totalSizeBytes]

\* the object literal assigned to folderSizeData
NewFolderSizeData(old, totalSizeBytes) ==
    [current_size_bytes |-> totalSizeBytes,
     max_size_bytes |-> MAX_SIZE_BYTES,
     used_percentage |-> UsedPercentage(totalSizeBytes)]

\* ------------------------------------------------- appliance's responses
\* thrown: the awaited call rejected (transport error, timeout, HTTP error);
\* otherwise the fields say what response.data holds.
ApiInfoResponses ==
    { [op |-> "getApiInfo", thrown |-> TRUE, success |-> FALSE,
       hasAuth |-> FALSE, hasDirSize |-> FALSE],
      [op |-> "getApiInfo", thrown |-> FALSE, success |-> FALSE,
       hasAuth |-> FALSE, hasDirSize |-> FALSE],
      [op |-> "getApiInfo", thrown |-> FALSE, success |-> TRUE,
       hasAuth |-> FALSE, hasDirSize |-> TRUE],
      [op |-> "getApiInfo", thrown |-> FALSE, success |-> TRUE,
       hasAuth |-> TRUE, hasDirSize |-> FALSE],
      [op |-> "getApiInfo", thrown |-> FALSE, success |-> TRUE,
       hasAuth |-> TRUE, hasDirSize |-> TRUE] }

LoginResponses ==
    { [op |-> "loginDsm", thrown |-> TRUE, success |-> FALSE,
       hasSid |-> FALSE, sid |-> NoId],
      [op |-> "loginDsm", thrown |-> FALSE, success |-> FALSE,
       hasSid |-> FALSE, sid |-> NoId],
      [op |-> "loginDsm", thrown |-> FALSE, success |-> TRUE,
       hasSid |-> FALSE, sid |-> NoId] }
    \cup [op : {"loginDsm"}, thrown : {FALSE}, success : BOOLEAN,
          hasSid : {TRUE}, sid : Sids]

StartResponses ==
    { [op |-> "startFolderSizeCalculation", thrown |-> TRUE, success |-> FALSE,
       hasData |-> FALSE, taskid |-> NoId],
      [op |-> "startFolderSizeCalculation", thrown |-> FALSE, success |-> FALSE,
       hasData |-> FALSE, taskid |-> NoId],
      [op |-> "startFolderSizeCalculation", thrown |-> FALSE, success |-> TRUE,
       hasData |-> FALSE, taskid |-> NoId] }
    \cup [op : {"startFolderSizeCalculation"}, thrown : {FALSE}, success : {TRUE},
          hasData : {TRUE}, taskid : TaskIds]

StatusResponses ==
    { [op |-> "getFolderSizeStatus", thrown |-> TRUE, success |-> FALSE,
       hasData |-> FALSE, finished |-> FALSE, total_size |-> 0],
      [op |-> "getFolderSizeStatus", thrown |-> FALSE, success |-> FALSE,
       hasData |-> FALSE, finished |-> FALSE, total_size |-> 0],
      [op |-> "getFolderSizeStatus", thrown |-> FALSE, success |-> FALSE,
       hasData |-> TRUE, finished |-> TRUE, total_size |-> 0],
      [op |-> "getFolderSizeStatus", thrown |-> FALSE, success |-> TRUE,
       hasData |-> FALSE, finished |-> FALSE, total_size |-> 0],
      [op |-> "getFolderSizeStatus", thrown |-> FALSE, success |-> TRUE,
       hasData |-> TRUE, finished |-> FALSE, total_size |-> 0] }
    \cup [op : {"getFolderSizeStatus"}, thrown : {FALSE}, success : {TRUE},
          hasData : {TRUE}, finished : {TRUE}, total_size : Sizes]

StopResponses ==
    [op : {"stopFolderSizeCalculation"}, thrown : {FALSE}, success : BOOLEAN]
    \cup { [op |-> "stopFolderSizeCalculation", thrown |-> TRUE, success |-> FALSE] }

LogoutResponses ==
    [op : {"logoutDsm"}, thrown : {FALSE}, success : BOOLEAN]
    \cup { [op |-> "logoutDsm", thrown |-> TRUE, success |-> FALSE] }

TimerFired == [op |-> "setTimeout", thrown |-> FALSE, success |-> TRUE]
NoResponse == [op |-> "none", thrown |-> FALSE, success |-> FALSE]

\* a request sent to the appliance, with the identifiers it carries
Call(op, s, t) == [op |-> op, sid |-> s, taskid |-> t]

\* ------------------------------------------------------------------ state
VARIABLES
    pc,              \* pc[r]: the await invocation r is suspended at
    sid,             \* const sid of the invocation
    taskid,          \* const taskid of the invocation
    restarts,        \* depth of the recursion calculateFolderSize() is at
    calls,           \* requests the current run of r has sent
    lastResp,        \* what the last settled await of r's current run gave
    folderSizeData,  \* the process-wide result variable
    served,          \* the last reply of GET /api/folder-size
    published        \* the finished poll that last assigned folderSizeData

vars == <<pc, sid, taskid, restarts, calls, lastResp, folderSizeData, served, published>>

Labels == {"idle", "getApiInfo", "loginDsm", "startFolderSizeCalculation",
           "getFolderSizeStatus", "sleep", "stopFinished", "logoutFinished",
           "stopRetry", "logoutRetry", "done", "rejected"}

NothingServed == [status |-> 0, body |-> EmptyObject]
NothingPublished == [run |-> "none", total_size |-> 0]

Init ==
    /\ pc = [r \in Runs |-> "idle"]
    /\ sid = [r \in Runs |-> NoId]
    /\ taskid = [r \in Runs |-> NoId]
    /\ restarts = [r \in Runs |-> 0]
    /\ calls = [r \in Runs |-> {}]
    /\ lastResp = [r \in Runs |-> NoResponse]
    /\ folderSizeData = InitialFolderSizeData
    /\ served = NothingServed
    /\ published = NothingPublished

\* ------------------------------------------------------ how a run may end
\* an exception with no enclosing try: the promise of the invocation rejects
OuterCatch_Missing == "rejected"

\* catch ( error ) { console.error(...) } of the whole body: falls off the end
OuterCatch == "done"

\* catch ( error ) { console.log(...); return; } inside the while loop
InnerCatch == "done"

\* a plain return statement
Return == "done"

\* the invocation moves to label next, having received resp and sent newCalls
Advance(r, resp, next, newCalls) ==
    /\ pc' = [pc EXCEPT ![r] = next]
    /\ lastResp' = [lastResp EXCEPT ![r] = resp]
    /\ calls' = [calls EXCEPT ![r] = @ \cup newCalls]

\* calculateFolderSize() from its first line to its first await: the route
\* discovery request has been sent
Invoke(r, depth) ==
    /\ pc' = [pc EXCEPT ![r] = "getApiInfo"]
    /\ sid' = [sid EXCEPT ![r] = NoId]
    /\ taskid' = [taskid EXCEPT ![r] = NoId]
    /\ restarts' = [restarts EXCEPT ![r] = depth]
    /\ calls' = [calls EXCEPT ![r] = {Call("getApiInfo", NoId, NoId)}]
    /\ lastResp' = [lastResp EXCEPT ![r] = NoResponse]

\* --------------------------------------------------------------- triggers
\* app.listen(port, () => { calculateFolderSize(); })
Startup ==
    /\ pc["startup"] = "idle"
    /\ Invoke("startup", 0)
    /\ UNCHANGED <<folderSizeData, served, published>>

\* cron.schedule('0 8-22 * * *', async () => { await calculateFolderSize(); })
\* The tick looks at nothing before it calls calculateFolderSize; the slot
\* "cron" holds one tick's invocation, so the model fires the next tick when
\* the slot is free, whatever the start-up invocation is doing.
CronTick ==
    /\ pc["cron"] \in {"idle", "done"}
    /\ Invoke("cron", 0)
    /\ UNCHANGED <<folderSizeData, served, published>>

\* ------------------------------------------------ the steps of one run
\* Each ...Branch operator is the chain of tests the code makes on a settled
\* await: "catch" an exception is thrown (by the call or by reading a field
\* of something undefined), "return" a plain return, otherwise the branch
\* that is taken.

\* lines 171-179: return on success:false; .path of a missing route entry
\* is a TypeError
ApiInfoBranch(resp) ==
    IF resp.thrown THEN "catch"
    ELSE IF ~resp.success THEN "return"
    ELSE IF ~resp.hasAuth \/ ~resp.hasDirSize THEN "catch"
    ELSE "next"

\* a faulty variant without the test of loginInfo.success
LoginBranch_NoSuccessTest(resp) ==
    IF resp.thrown THEN "catch"
    ELSE IF ~resp.hasSid THEN "catch"
    ELSE "next"

\* lines 59-62: loginDsm throws when the response has no sid;
\* lines 183-186: return on success:false
LoginBranch(resp) ==
    IF resp.thrown THEN "catch"
    ELSE IF ~resp.hasSid THEN "catch"
    ELSE IF ~resp.success THEN "return"
    ELSE "next"

\* lines 193-198: return on success:false; startInfo.data.taskid of a
\* response without data is a TypeError
StartBranch(resp) ==
    IF resp.thrown THEN "catch"
    ELSE IF ~resp.success THEN "return"
    ELSE IF ~resp.hasData THEN "catch"
    ELSE "next"

\* a faulty variant that handles a transport error of the poll like an
\* application-level failure
StatusBranch_ThrowRetries(resp) ==
    IF resp.thrown THEN "retry"
    ELSE IF resp.success /\ ~resp.hasData THEN "catch"
    ELSE IF resp.success /\ resp.finished
         THEN IF ~resp.success THEN "return" ELSE "finished"
    ELSE IF resp.success THEN "inProgress"
    ELSE "retry"

\* a faulty variant that takes a poll that is still in progress for a failed
\* one (the else-if of line 229 left out)
StatusBranch_InProgressRetries(resp) ==
    IF resp.thrown THEN "catch"
    ELSE IF resp.success /\ ~resp.hasData THEN "catch"
    ELSE IF resp.success /\ resp.finished
         THEN IF ~resp.success THEN "return" ELSE "finished"
    ELSE "retry"

\* a faulty variant whose outer test looks at sizeInfo.data.finished only
StatusBranch_FinishedOnly(resp) ==
    IF resp.thrown THEN "catch"
    ELSE IF ~resp.hasData THEN (IF resp.success THEN "catch" ELSE "retry")
    ELSE IF resp.finished
         THEN IF ~resp.success THEN "return" ELSE "finished"
    ELSE IF resp.success THEN "inProgress"
    ELSE "retry"

\* lines 204-239: sizeInfo.success && sizeInfo.data.finished (and inside it
\* the test of line 207, ! sizeInfo.success, with its return), else
\* sizeInfo.success, else the retry branch; sizeInfo.data.finished of a
\* successful response without data is a TypeError
StatusBranch(resp) ==
    IF resp.thrown THEN "catch"
    ELSE IF resp.success /\ ~resp.hasData THEN "catch"
    ELSE IF resp.success /\ resp.finished
         THEN IF ~resp.success THEN "return" ELSE "finished"
    ELSE IF resp.success THEN "inProgress"
    ELSE "retry"

\* a faulty variant that clears the result when a poll does not finish
CacheAfterStatus_ClearOnFailure(old, resp) ==
    IF StatusBranch(resp) = "finished"
    THEN NewFolderSizeData(old, resp.total_size)
    ELSE IF StatusBranch(resp) = "inProgress" THEN old
    ELSE EmptyObject

\* a faulty variant that keeps a measurement once there is one
CacheAfterStatus_FirstWriteWins(old, resp) ==
    IF StatusBranch(resp) = "finished" /\ old = EmptyObject
    THEN NewFolderSizeData(old, resp.total_size)
    ELSE old

\* lines 212-219: folderSizeData is assigned in the finished branch only
CacheAfterStatus(old, resp) ==
    IF StatusBranch(resp) = "finished"
    THEN NewFolderSizeData(old, resp.total_size)
    ELSE old

\* a faulty variant with the stop call in a try of its own that swallows the
\* exception
StopBranch_IgnoreThrow(resp) == "next"

\* lines 223 and 235: the value stopFolderSizeCalculation resolves to is
\* dropped
StopBranch(resp) == IF resp.thrown THEN "catch" ELSE "next"

\* a faulty variant with the logout of the finished branch outside any try
AfterLogoutFinished_Uncaught(resp) ==
    IF resp.thrown THEN "rejected" ELSE Return

\* lines 225-228, 240-245, 248-253: the value logoutDsm resolves to is
\* dropped; break leaves the loop and the function ends
AfterLogoutFinished(resp) ==
    IF resp.thrown THEN InnerCatch ELSE Return

\* lines 237-238
LogoutRetryBranch(resp) == IF resp.thrown THEN "catch" ELSE "restart"

ApiInfoSettled(r) ==
    /\ pc[r] = "getApiInfo"
    /\ \E resp \in ApiInfoResponses :
         CASE ApiInfoBranch(resp) = "catch" -> Advance(r, resp, OuterCatch, {})
           [] ApiInfoBranch(resp) = "return" -> Advance(r, resp, Return, {})
           [] OTHER -> Advance(r, resp, "loginDsm", {Call("loginDsm", NoId, NoId)})
    /\ UNCHANGED <<sid, taskid, restarts, folderSizeData, served, published>>

\* a faulty variant that keeps the session id in one variable shared by all
\* invocations (a module-level let instead of a const of the function)
LoginSettled_SharedSid(r) ==
    /\ pc[r] = "loginDsm"
    /\ \E resp \in LoginResponses :
         CASE LoginBranch(resp) = "catch" ->
                Advance(r, resp, OuterCatch, {}) /\ UNCHANGED sid
           [] LoginBranch(resp) = "return" ->
                Advance(r, resp, Return, {}) /\ UNCHANGED sid
           [] OTHER ->
                /\ sid' = [q \in Runs |-> resp.sid]
                /\ Advance(r, resp, "startFolderSizeCalculation",
                           {Call("startFolderSizeCalculation", resp.sid, NoId)})
    /\ UNCHANGED <<taskid, restarts, folderSizeData, served, published>>

\* lines 181-191: on success sid is set and the start request is sent
LoginSettled(r) ==
    /\ pc[r] = "loginDsm"
    /\ \E resp \in LoginResponses :
         CASE LoginBranch(resp) = "catch" ->
                Advance(r, resp, OuterCatch, {}) /\ UNCHANGED sid
           [] LoginBranch(resp) = "return" ->
                Advance(r, resp, Return, {}) /\ UNCHANGED sid
           [] OTHER ->
                /\ sid' = [sid EXCEPT ![r] = resp.sid]
                /\ Advance(r, resp, "startFolderSizeCalculation",
                           {Call("startFolderSizeCalculation", resp.sid, NoId)})
    /\ UNCHANGED <<taskid, restarts, folderSizeData, served, published>>

\* lines 191-204: on success taskid is set, the loop is entered and the
\* first status request is sent
StartSettled(r) ==
    /\ pc[r] = "startFolderSizeCalculation"
    /\ \E resp \in StartResponses :
         CASE StartBranch(resp) = "catch" ->
                Advance(r, resp, OuterCatch, {}) /\ UNCHANGED taskid
           [] StartBranch(resp) = "return" ->
                Advance(r, resp, Return, {}) /\ UNCHANGED taskid
           [] OTHER ->
                /\ taskid' = [taskid EXCEPT ![r] = resp.taskid]
                /\ Advance(r, resp, "getFolderSizeStatus",
                           {Call("getFolderSizeStatus", sid[r], resp.taskid)})
    /\ UNCHANGED <<sid, restarts, folderSizeData, served, published>>

\* lines 204-246
StatusSettled(r) ==
    /\ pc[r] = "getFolderSizeStatus"
    /\ \E resp \in StatusResponses :
         /\ folderSizeData' = CacheAfterStatus(folderSizeData, resp)
         /\ published' = IF StatusBranch(resp) = "finished"
                         THEN [run |-> r, total_size |-> resp.total_size]
                         ELSE published
         /\ CASE StatusBranch(resp) = "catch" -> Advance(r, resp, InnerCatch, {})
              [] StatusBranch(resp) = "return" -> Advance(r, resp, Return, {})
              [] StatusBranch(resp) = "finished" ->
                   Advance(r, resp, "stopFinished",
                           {Call("stopFolderSizeCalculation", sid[r], taskid[r])})
              [] StatusBranch(resp) = "inProgress" -> Advance(r, resp, "sleep", {})
              [] OTHER ->
                   Advance(r, resp, "stopRetry",
                           {Call("stopFolderSizeCalculation", sid[r], taskid[r])})
    /\ UNCHANGED <<sid, taskid, restarts, served>>

\* line 246 then lines 201-204: the timer fires, the loop sends the next
\* status request
SleepOver(r) ==
    /\ pc[r] = "sleep"
    /\ Advance(r, TimerFired, "getFolderSizeStatus",
               {Call("getFolderSizeStatus", sid[r], taskid[r])})
    /\ UNCHANGED <<sid, taskid, restarts, folderSizeData, served, published>>

\* a faulty variant that leaves the loop right after the stop call, without
\* the logout
StopFinishedSettled_NoLogout(r) ==
    /\ pc[r] = "stopFinished"
    /\ \E resp \in StopResponses :
         CASE StopBranch(resp) = "catch" -> Advance(r, resp, InnerCatch, {})
           [] OTHER -> Advance(r, resp, Return, {})
    /\ UNCHANGED <<sid, taskid, restarts, folderSizeData, served, published>>

\* lines 223-225
StopFinishedSettled(r) ==
    /\ pc[r] = "stopFinished"
    /\ \E resp \in StopResponses :
         CASE StopBranch(resp) = "catch" -> Advance(r, resp, InnerCatch, {})
           [] OTHER -> Advance(r, resp, "logoutFinished",
                               {Call("logoutDsm", sid[r], NoId)})
    /\ UNCHANGED <<sid, taskid, restarts, folderSizeData, served, published>>

\* lines 225-228
LogoutFinishedSettled(r) ==
    /\ pc[r] = "logoutFinished"
    /\ \E resp \in LogoutResponses : Advance(r, resp, AfterLogoutFinished(resp), {})
    /\ UNCHANGED <<sid, taskid, restarts, folderSizeData, served, published>>

\* lines 235-237
StopRetrySettled(r) ==
    /\ pc[r] = "stopRetry"
    /\ \E resp \in StopResponses :
         CASE StopBranch(resp) = "catch" -> Advance(r, resp, InnerCatch, {})
           [] OTHER -> Advance(r, resp, "logoutRetry",
                               {Call("logoutDsm", sid[r], NoId)})
    /\ UNCHANGED <<sid, taskid, restarts, folderSizeData, served, published>>

\* the depth of the recursion after one more call; the code keeps no such
\* count, the model's counter stops at MaxRestarts
NextDepth(n) == IF n < MaxRestarts THEN n + 1 ELSE n

\* a faulty variant that restarts from the start call, keeping the session
LogoutRetrySettled_FromStarting(r) ==
    /\ pc[r] = "logoutRetry"
    /\ \E resp \in LogoutResponses :
         CASE LogoutRetryBranch(resp) = "catch" ->
                /\ Advance(r, resp, InnerCatch, {})
                /\ UNCHANGED <<sid, taskid, restarts>>
           [] OTHER ->
                /\ pc' = [pc EXCEPT ![r] = "startFolderSizeCalculation"]
                /\ restarts' = [restarts EXCEPT ![r] = NextDepth(@)]
                /\ calls' = [calls EXCEPT
                               ![r] = {Call("startFolderSizeCalculation", sid[r], NoId)}]
                /\ lastResp' = [lastResp EXCEPT ![r] = NoResponse]
                /\ UNCHANGED <<sid, taskid>>
    /\ UNCHANGED <<folderSizeData, served, published>>

\* lines 237-238: return calculateFolderSize() calls the function again,
\* with nothing that counts or limits the calls
LogoutRetrySettled(r) ==
    /\ pc[r] = "logoutRetry"
    /\ \E resp \in LogoutResponses :
         CASE LogoutRetryBranch(resp) = "catch" ->
                /\ Advance(r, resp, InnerCatch, {})
                /\ UNCHANGED <<sid, taskid, restarts>>
           [] OTHER -> Invoke(r, NextDepth(restarts[r]))
    /\ UNCHANGED <<folderSizeData, served, published>>

\* ---------------------------------------------------------- HTTP handler
\* the reply a GET /api/folder-size would get for an empty cache if the
\* handler treated "no measurement yet" as an error
HandleGet_ErrorWhenEmpty(data) ==
    IF data = EmptyObject THEN [status |-> 404, body |-> EmptyObject]
    ELSE [status |-> 200, body |-> data]

\* app.get('/api/folder-size', (req, res) => { res.json(folderSizeData); })
HandleGet(data) == [status |-> 200, body |-> data]

GetFolderSize ==
    /\ served' = HandleGet(folderSizeData)
    /\ UNCHANGED <<pc, sid, taskid, restarts, calls, lastResp, folderSizeData, published>>

\* ---------------------------------------------------------- specification
RunStep(r) ==
    \/ ApiInfoSettled(r)
    \/ LoginSettled(r)
    \/ StartSettled(r)
    \/ StatusSettled(r)
    \/ SleepOver(r)
    \/ StopFinishedSettled(r)
    \/ LogoutFinishedSettled(r)
    \/ StopRetrySettled(r)
    \/ LogoutRetrySettled(r)

Next ==
    \/ Startup
    \/ CronTick
    \/ GetFolderSize
    \/ \E r \in Runs : RunStep(r)

Spec == Init /\ [][Next]_vars

\* What the claims about termination assume of the environment: every
\* awaited call settles (axios gives up after its 10 s timeout, the timer
\* fires), and a task does not answer "in progress" for ever.
Fairness ==
    \A r \in Runs :
        /\ WF_vars(RunStep(r))
        /\ SF_vars(StatusSettled(r) /\ pc'[r] # "sleep")

LiveSpec == Init /\ [][Next]_vars /\ Fairness

TypeOK ==
    /\ pc \in [Runs -> Labels]
    /\ sid \in [Runs -> Sids \cup {NoId}]
    /\ taskid \in [Runs -> TaskIds \cup {NoId}]
    /\ restarts \in [Runs -> 0..MaxRestarts]
    /\ served.status \in {0, 200, 404}

\* ------------------------------------------------- vocabulary of the claims
HasCall(r, op) == \E c \in calls[r] : c.op = op
Active(r) == pc[r] \notin {"idle", "done", "rejected"}
Stepped(r) == pc'[r] # pc[r]
CompleteMeasurement(total) ==
    [current_size_bytes |-> total,
     max_size_bytes |-> MAX_SIZE_BYTES,
     used_percentage |-> UsedPercentage(total)]

\* ----------------------------------------------------------------- claims

\* C1: within one externally-triggered invocation the number of
\* self-restarts is at most 1, whatever the appliance answers.
C1_AtMostOneRestart == \A r \in Runs : restarts[r] <= 1

\* C2: when a status poll fails with a transport-level exception, that step
\* leaves folderSizeData as it is, sends no request, restarts nothing and the
\* run returns; the run has sent no stop and no logout request, then or later.
C2_PollTransportFailure ==
    /\ [][\A r \in Runs :
            (pc[r] = "getFolderSizeStatus" /\ Stepped(r) /\ lastResp'[r].thrown)
            => /\ pc'[r] = "done"
               /\ folderSizeData' = folderSizeData
               /\ calls'[r] = calls[r]
               /\ restarts'[r] = restarts[r]]_vars
    /\ [](\A r \in Runs :
            (lastResp[r].op = "getFolderSizeStatus" /\ lastResp[r].thrown)
            => /\ pc[r] = "done"
               /\ ~HasCall(r, "stopFolderSizeCalculation")
               /\ ~HasCall(r, "logoutDsm"))

C2_Witness ==
    \E r \in Runs :
        /\ lastResp[r].op = "getFolderSizeStatus" /\ lastResp[r].thrown
        /\ pc[r] = "done"
        /\ folderSizeData # EmptyObject

\* C3: when opening the session fails (discovery answers success:false or
\* throws, login throws, login answers success:false, or the login response
\* has no sid), the run has ended and has sent no start, status or stop
\* request.
OpenFailed(r) ==
    \/ lastResp[r].op = "getApiInfo" /\ (lastResp[r].thrown \/ ~lastResp[r].success)
    \/ lastResp[r].op = "loginDsm"
       /\ (lastResp[r].thrown \/ ~lastResp[r].success \/ ~lastResp[r].hasSid)

C3_OpenFailureSendsNothing ==
    \A r \in Runs :
        OpenFailed(r)
        => /\ pc[r] = "done"
           /\ ~HasCall(r, "startFolderSizeCalculation")
           /\ ~HasCall(r, "getFolderSizeStatus")
           /\ ~HasCall(r, "stopFolderSizeCalculation")

C3_Witness ==
    /\ lastResp["startup"].op = "loginDsm"
    /\ lastResp["startup"].hasSid /\ ~lastResp["startup"].success
    /\ lastResp["cron"].op = "loginDsm"
    /\ ~lastResp["cron"].thrown /\ ~lastResp["cron"].hasSid
    /\ pc["startup"] = "done" /\ pc["cron"] = "done"

\* C4: when the start call fails after the session was opened (success:false
\* or a transport error), the run has sent a logout request for its session
\* id by the time it ends, and has sent no status request.
StartFailed(r) ==
    /\ lastResp[r].op = "startFolderSizeCalculation"
    /\ (lastResp[r].thrown \/ ~lastResp[r].success)

C4_StartFailureClosesSession ==
    \A r \in Runs :
        (StartFailed(r) /\ pc[r] = "done")
        => /\ Call("logoutDsm", sid[r], NoId) \in calls[r]
           /\ ~HasCall(r, "getFolderSizeStatus")

\* C5: at most one measurement run is active at any time.
C5_NoOverlappingRuns == Cardinality({r \in Runs : Active(r)}) <= 1

\* C6: a failing logout (exception or success:false) after a finished poll
\* ends the run with a clean return, restarts nothing, sends nothing and
\* leaves folderSizeData holding the measurement the run published.
C6_LogoutFailureHarmless ==
    [][\A r \in Runs :
         (/\ pc[r] = "logoutFinished" /\ Stepped(r)
          /\ (lastResp'[r].thrown \/ ~lastResp'[r].success))
         => /\ pc'[r] = "done"
            /\ restarts'[r] = restarts[r]
            /\ calls'[r] = calls[r]
            /\ folderSizeData' = folderSizeData
            /\ published' = published
            /\ (published.run = r
                => folderSizeData' = CompleteMeasurement(published.total_size))]_vars

\* the start-up invocation is made once, so what it published it published
\* in the run that ended with the failed logout
C6_Witness ==
    /\ pc["startup"] = "done"
    /\ lastResp["startup"].op = "logoutDsm" /\ lastResp["startup"].thrown
    /\ restarts["startup"] = 0
    /\ published.run = "startup"
    /\ folderSizeData = CompleteMeasurement(published.total_size)

\* C7: folderSizeData is assigned only in the step that handles a status
\* response with success:true and finished:true; a step in which discovery,
\* login, start or a status poll fails (success:false or an exception)
\* leaves it as it was, and GET /api/folder-size replies with its value.
FailedResponse(resp) ==
    /\ resp.op \in {"getApiInfo", "loginDsm", "startFolderSizeCalculation",
                    "getFolderSizeStatus"}
    /\ (resp.thrown \/ ~resp.success)

C7_FailedRunKeepsCache ==
    [][/\ folderSizeData' # folderSizeData
          => \E r \in Runs :
                /\ pc[r] = "getFolderSizeStatus" /\ Stepped(r)
                /\ lastResp'[r].op = "getFolderSizeStatus"
                /\ ~lastResp'[r].thrown
                /\ lastResp'[r].success /\ lastResp'[r].finished
       /\ \A r \in Runs :
            (Stepped(r) /\ FailedResponse(lastResp'[r]))
            => folderSizeData' = folderSizeData
       /\ served' # served => served'.body = folderSizeData]_vars

\* a run failed at a poll after an earlier run had published, and a GET
\* made afterwards was served the earlier measurement
C7_Witness ==
    /\ pc["cron"] = "done"
    /\ lastResp["cron"].op = "getFolderSizeStatus" /\ ~lastResp["cron"].success
    /\ published.run = "startup"
    /\ pc["startup"] = "done"
    /\ served.body = CompleteMeasurement(published.total_size)

\* C8: until some run has handled a finished status poll, folderSizeData is
\* the empty object and every reply of GET /api/folder-size is a normal
\* reply with the empty object as its payload.
C8_EmptyUntilFirstFinish ==
    published = NothingPublished
    => /\ folderSizeData = EmptyObject
       /\ served \in {NothingServed, [status |-> 200, body |-> EmptyObject]}

C8_Witness ==
    /\ published = NothingPublished
    /\ served = [status |-> 200, body |-> EmptyObject]
    /\ pc["startup"] = "sleep"
    /\ pc["cron"] = "startFolderSizeCalculation"

\* C9: folderSizeData, and the payload of every reply of the HTTP handler,
\* is either the empty object or a complete measurement whose three fields
\* all come from one total_size; the current value is the one of the
\* finished poll that assigned it last.
C9_CacheAtomic ==
    /\ IF published = NothingPublished
       THEN folderSizeData = EmptyObject
       ELSE /\ DOMAIN folderSizeData =
                 {"current_size_bytes", "max_size_bytes", "used_percentage"}
            /\ folderSizeData.current_size_bytes = published.total_size
            /\ folderSizeData.max_size_bytes = MAX_SIZE_BYTES
            /\ folderSizeData.used_percentage = UsedPercentage(published.total_size)
    /\ \/ served.body = EmptyObject
       \/ \E t \in Sizes : served.body = CompleteMeasurement(t)

\* a reader was served one complete measurement and another run has since
\* replaced it by a different one
C9_Witness ==
    /\ served.body # EmptyObject
    /\ folderSizeData # EmptyObject
    /\ served.body # folderSizeData
    /\ \E r \in Runs : Active(r)

\* C10: no invocation of calculateFolderSize ends in a rejected promise,
\* whichever step fails and however it fails.
C10_NeverRejected == \A r \in Runs : pc[r] # "rejected"

\* one invocation ended by an exception of the restarted run, the other by
\* a missing route-table entry
C10_Witness ==
    /\ pc["startup"] = "done" /\ restarts["startup"] >= 1
    /\ lastResp["startup"].thrown
    /\ pc["cron"] = "done"
    /\ lastResp["cron"].op = "getApiInfo"
    /\ lastResp["cron"].success /\ ~lastResp["cron"].hasAuth

\* C11: every invocation eventually terminates, provided every call settles
\* and a task does not stay unfinished for ever; an appliance that answers
\* every status poll with success:false cannot keep an invocation running.
C11_EveryInvocationTerminates == \A r \in Runs : Active(r) ~> ~Active(r)

\* C12: the measurement assigned on a finished poll has current_size_bytes
\* equal to the total_size of that response, max_size_bytes equal to
\* 6 * 1024^4 bytes (1610612736 blocks of 4096 bytes) and used_percentage
\* equal to current / max * 100, not clamped: a total_size above the capacity
\* gives more than 100, and 10^12 bytes gives about 15.16.
\* One hundredth of a percent of the capacity is 161061.27 blocks, so h
\* hundredths stand for a size between h * 161061 and (h + 1) * 161062.
FinishedPollStep(r) ==
    /\ pc[r] = "getFolderSizeStatus" /\ Stepped(r)
    /\ lastResp'[r].op = "getFolderSizeStatus"
    /\ ~lastResp'[r].thrown /\ lastResp'[r].success
    /\ lastResp'[r].hasData /\ lastResp'[r].finished

C12_MeasurementValues ==
    [][\A r \in Runs :
         FinishedPollStep(r)
         => LET t == lastResp'[r].total_size
                m == folderSizeData'
            IN /\ DOMAIN m = {"current_size_bytes", "max_size_bytes", "used_percentage"}
               /\ m.current_size_bytes = t
               /\ m.max_size_bytes = 1610612736
               /\ m.used_percentage * 161061 <= t
               /\ t < (m.used_percentage + 1) * 161062
               /\ (t > 1610612736 => m.used_percentage > 10000)
               /\ (t = 244140625 => m.used_percentage \in 1515..1516)]_vars

\* a measurement above the capacity is in the cache, and a reader was served
\* the measurement of 10^12 bytes before
C12_Witness ==
    /\ folderSizeData = CompleteMeasurement(2013265920)
    /\ folderSizeData.used_percentage > 10000
    /\ served.body = CompleteMeasurement(244140625)
    /\ served.body.used_percentage = 1515

\* C13: on the success path the steps of a run happen in the order discover
\* routes, login, start, status polls (one or more, a wait between two),
\* assignment of folderSizeData, stop, logout, return; every request but the
\* status poll is sent once; the cache is assigned by the time the stop
\* request is sent, stop is sent before logout and nothing after logout.
GoodResponse(resp) ==
    /\ ~resp.thrown /\ resp.success
    /\ (resp.op = "getApiInfo" => resp.hasAuth /\ resp.hasDirSize)
    /\ (resp.op = "loginDsm" => resp.hasSid)
    /\ (resp.op \in {"startFolderSizeCalculation", "getFolderSizeStatus"} => resp.hasData)

\* the step has sent exactly one request, of kind op, and none of that kind
\* had been sent by the run before
SentFirst(r, op) ==
    /\ ~HasCall(r, op)
    /\ \E c \in calls'[r] : c.op = op /\ calls'[r] = calls[r] \cup {c}

SuccessLabels == {"getApiInfo", "loginDsm", "startFolderSizeCalculation",
                  "getFolderSizeStatus", "sleep", "stopFinished", "logoutFinished"}

AllRequests == {"getApiInfo", "loginDsm", "startFolderSizeCalculation",
                "getFolderSizeStatus", "stopFolderSizeCalculation", "logoutDsm"}

C13_SuccessPathOrder ==
    [][\A r \in Runs :
         /\ (pc[r] \in {"idle", "done"} /\ Stepped(r))
            => /\ pc'[r] = "getApiInfo"
               /\ calls'[r] = {Call("getApiInfo", NoId, NoId)}
         /\ (pc[r] \in SuccessLabels /\ Stepped(r) /\ GoodResponse(lastResp'[r]))
            => CASE pc[r] = "getApiInfo" ->
                      pc'[r] = "loginDsm" /\ SentFirst(r, "loginDsm")
                 [] pc[r] = "loginDsm" ->
                      /\ pc'[r] = "startFolderSizeCalculation"
                      /\ SentFirst(r, "startFolderSizeCalculation")
                 [] pc[r] = "startFolderSizeCalculation" ->
                      /\ pc'[r] = "getFolderSizeStatus"
                      /\ SentFirst(r, "getFolderSizeStatus")
                 [] pc[r] = "getFolderSizeStatus" /\ ~lastResp'[r].finished ->
                      /\ pc'[r] = "sleep"
                      /\ calls'[r] = calls[r]
                      /\ folderSizeData' = folderSizeData
                 [] pc[r] = "sleep" ->
                      /\ pc'[r] = "getFolderSizeStatus"
                      /\ calls'[r] = calls[r]
                      /\ HasCall(r, "getFolderSizeStatus")
                 [] pc[r] = "getFolderSizeStatus" /\ lastResp'[r].finished ->
                      /\ pc'[r] = "stopFinished"
                      /\ SentFirst(r, "stopFolderSizeCalculation")
                      /\ ~HasCall(r, "logoutDsm")
                      /\ folderSizeData' = CompleteMeasurement(lastResp'[r].total_size)
                 [] pc[r] = "stopFinished" ->
                      /\ pc'[r] = "logoutFinished"
                      /\ SentFirst(r, "logoutDsm")
                 [] pc[r] = "logoutFinished" ->
                      /\ pc'[r] = "done"
                      /\ calls'[r] = calls[r]
                      /\ {c.op : c \in calls[r]} = AllRequests
                      /\ Cardinality(calls[r]) = 6]_vars

\* the start-up run went through all the steps and returned, and its
\* measurement is in the cache
C13_Witness ==
    /\ pc["startup"] = "done"
    /\ lastResp["startup"] = [op |-> "logoutDsm", thrown |-> FALSE, success |-> TRUE]
    /\ restarts["startup"] = 0
    /\ {c.op : c \in calls["startup"]} = AllRequests
    /\ published.run = "startup"
    /\ folderSizeData = CompleteMeasurement(published.total_size)

\* C14: the stop call after a finished poll is best-effort: whatever it
\* gives (success, success:false or an exception), the run sends the logout
\* request before it ends.
C14_StopIsBestEffort ==
    [][\A r \in Runs :
         (pc[r] = "stopFinished" /\ Stepped(r))
         => /\ pc'[r] = "logoutFinished"
            /\ \E c \in calls'[r] : c.op = "logoutDsm"]_vars

\* C15: after a status poll with success:false the run sends stop for its
\* task, then logout for its session, and only then starts again from route
\* discovery with nothing kept of the failed run; when a run restarted once
\* handles a finished poll, the restart count is still one and
\* folderSizeData is the measurement of the total_size reported to it.
C15_RetryPath ==
    [][\A r \in Runs :
         /\ (/\ pc[r] = "getFolderSizeStatus" /\ Stepped(r)
             /\ lastResp'[r].op = "getFolderSizeStatus"
             /\ ~lastResp'[r].thrown /\ ~lastResp'[r].success)
            => /\ pc'[r] = "stopRetry"
               /\ calls'[r] = calls[r] \cup
                      {Call("stopFolderSizeCalculation", sid[r], taskid[r])}
               /\ ~HasCall(r, "stopFolderSizeCalculation")
               /\ ~HasCall(r, "logoutDsm")
               /\ folderSizeData' = folderSizeData
         /\ (pc[r] = "stopRetry" /\ Stepped(r) /\ ~lastResp'[r].thrown)
            => /\ pc'[r] = "logoutRetry"
               /\ calls'[r] = calls[r] \cup {Call("logoutDsm", sid[r], NoId)}
               /\ ~HasCall(r, "logoutDsm")
         /\ (Active(r) /\ Stepped(r) /\ pc'[r] = "getApiInfo")
            => /\ pc[r] = "logoutRetry"
               /\ HasCall(r, "stopFolderSizeCalculation")
               /\ HasCall(r, "logoutDsm")
               /\ restarts'[r] = IF restarts[r] < MaxRestarts
                                  THEN restarts[r] + 1 ELSE restarts[r]
               /\ calls'[r] = {Call("getApiInfo", NoId, NoId)}
               /\ sid'[r] = NoId /\ taskid'[r] = NoId
               /\ folderSizeData' = folderSizeData
         /\ (Stepped(r) /\ pc'[r] # "getApiInfo") => restarts'[r] = restarts[r]
         /\ (FinishedPollStep(r) /\ restarts[r] = 1)
            => /\ restarts'[r] = 1
               /\ folderSizeData' = CompleteMeasurement(lastResp'[r].total_size)]_vars

\* the start-up invocation restarted once, the restarted run finished and
\* returned, and its measurement is in the cache
C15_Witness ==
    /\ pc["startup"] = "done"
    /\ restarts["startup"] = 1
    /\ lastResp["startup"] = [op |-> "logoutDsm", thrown |-> FALSE, success |-> TRUE]
    /\ published.run = "startup"
    /\ folderSizeData = CompleteMeasurement(published.total_size)

\* C16: session and task identifiers belong to one run: every start, status,
\* stop and logout request of a run carries the sid its own login returned,
\* every status and stop request the taskid its own start returned; the
\* identifiers of a run change only by that run's own login or start, and a
\* run that starts (again) holds none.
C16_IdentifiersScopedToRun ==
    /\ [](\A r \in Runs : \A c \in calls[r] :
            /\ c.op \in {"getApiInfo", "loginDsm"} => c.sid = NoId
            /\ c.op \in {"startFolderSizeCalculation", "getFolderSizeStatus",
                         "stopFolderSizeCalculation", "logoutDsm"}
               => c.sid = sid[r] /\ sid[r] \in Sids
            /\ c.op \in {"getFolderSizeStatus", "stopFolderSizeCalculation"}
               => c.taskid = taskid[r] /\ taskid[r] \in TaskIds)
    /\ [][\A r \in Runs :
            /\ sid'[r] # sid[r]
               => /\ Stepped(r)
                  /\ \/ /\ pc[r] = "loginDsm"
                        /\ lastResp'[r].op = "loginDsm"
                        /\ sid'[r] = lastResp'[r].sid
                     \/ pc'[r] = "getApiInfo" /\ sid'[r] = NoId
            /\ taskid'[r] # taskid[r]
               => /\ Stepped(r)
                  /\ \/ /\ pc[r] = "startFolderSizeCalculation"
                        /\ lastResp'[r].op = "startFolderSizeCalculation"
                        /\ taskid'[r] = lastResp'[r].taskid
                     \/ pc'[r] = "getApiInfo" /\ taskid'[r] = NoId
            /\ (Stepped(r) /\ pc'[r] = "getApiInfo")
               => sid'[r] = NoId /\ taskid'[r] = NoId]_vars

\* two overlapping runs, one of them restarted, poll with different
\* identifiers
C16_Witness ==
    /\ pc["startup"] = "sleep"
    /\ pc["cron"] = "getFolderSizeStatus"
    /\ restarts["cron"] = 1
    /\ sid["startup"] \in Sids /\ sid["cron"] \in Sids
    /\ sid["startup"] # sid["cron"]
    /\ taskid["startup"] # taskid["cron"]
    /\ Call("getFolderSizeStatus", sid["cron"], taskid["cron"]) \in calls["cron"]

\* C17: a status poll with success:true that is not finished keeps the run
\* polling and changes nothing else (no request, no restart, no cache write);
\* the run waits once and polls again with the same sid and taskid. The first
\* poll follows the start with no wait, and a wait is entered only after a
\* poll and left only into the next poll.
C17_InProgressPoll ==
    [][\A r \in Runs :
         /\ (/\ pc[r] = "getFolderSizeStatus" /\ Stepped(r)
             /\ lastResp'[r].op = "getFolderSizeStatus"
             /\ ~lastResp'[r].thrown /\ lastResp'[r].success
             /\ lastResp'[r].hasData /\ ~lastResp'[r].finished)
            => /\ pc'[r] = "sleep"
               /\ calls'[r] = calls[r]
               /\ restarts'[r] = restarts[r]
               /\ sid'[r] = sid[r] /\ taskid'[r] = taskid[r]
               /\ folderSizeData' = folderSizeData
               /\ published' = published
         /\ (pc[r] = "sleep" /\ Stepped(r))
            => /\ pc'[r] = "getFolderSizeStatus"
               /\ Call("getFolderSizeStatus", sid[r], taskid[r]) \in calls[r]
               /\ calls'[r] = calls[r]
               /\ sid'[r] = sid[r] /\ taskid'[r] = taskid[r]
               /\ folderSizeData' = folderSizeData
         /\ (Stepped(r) /\ pc'[r] = "getFolderSizeStatus")
            => pc[r] \in {"startFolderSizeCalculation", "sleep"}
         /\ (Stepped(r) /\ pc'[r] = "sleep") => pc[r] = "getFolderSizeStatus"
         /\ (/\ pc[r] = "startFolderSizeCalculation" /\ Stepped(r)
             /\ GoodResponse(lastResp'[r]))
            => pc'[r] = "getFolderSizeStatus"]_vars

\* a run has waited and sent its next poll
C17_Witness ==
    \E r \in Runs :
        /\ pc[r] = "getFolderSizeStatus"
        /\ lastResp[r] = TimerFired
        /\ Call("getFolderSizeStatus", sid[r], taskid[r]) \in calls[r]

\* C18: writes of folderSizeData are last-write-wins: a finished poll
\* assigns its measurement whatever the cache held, so the cache holds the
\* measurement of the run whose finished poll was handled last, also when
\* runs overlap.
C18_LastWriteWins ==
    /\ [][\A r \in Runs :
            FinishedPollStep(r)
            => /\ folderSizeData' = CompleteMeasurement(lastResp'[r].total_size)
               /\ published'.run = r]_vars
    /\ [](published.run \in Runs
           => folderSizeData = CompleteMeasurement(published.total_size))

\* both runs are active; the cron run assigned a measurement (a reader was
\* served it) and the start-up run has just replaced it by a different one
C18_Witness ==
    /\ pc["cron"] = "logoutFinished"
    /\ pc["startup"] = "stopFinished"
    /\ published.run = "startup"
    /\ served.body # EmptyObject
    /\ served.body # folderSizeData
    /\ folderSizeData = CompleteMeasurement(published.total_size)

\* C19: on the failure path a stop call that throws ends the run with no
\* logout and no restart, a logout call that throws ends it with no restart,
\* in both cases with folderSizeData unchanged; a restart happens only out of
\* the logout of that path, after a stop that did not throw.
C19_RetryNeedsStopAndLogout ==
    [][\A r \in Runs :
         /\ (pc[r] = "stopRetry" /\ Stepped(r) /\ lastResp'[r].thrown)
            => /\ pc'[r] = "done"
               /\ calls'[r] = calls[r]
               /\ ~HasCall(r, "logoutDsm")
               /\ restarts'[r] = restarts[r]
               /\ folderSizeData' = folderSizeData
         /\ (pc[r] = "logoutRetry" /\ Stepped(r) /\ lastResp'[r].thrown)
            => /\ pc'[r] = "done"
               /\ calls'[r] = calls[r]
               /\ restarts'[r] = restarts[r]
               /\ folderSizeData' = folderSizeData
         /\ (Active(r) /\ Stepped(r) /\ pc'[r] = "getApiInfo")
            => /\ pc[r] = "logoutRetry"
               /\ lastResp[r].op = "stopFolderSizeCalculation"
               /\ ~lastResp[r].thrown]_vars

\* nothing was ever published: the start-up run ended on a thrown stop and
\* the cron run on a thrown logout, both on the failure path
C19_Witness ==
    /\ published = NothingPublished
    /\ folderSizeData = EmptyObject
    /\ pc["startup"] = "done"
    /\ lastResp["startup"].op = "stopFolderSizeCalculation"
    /\ lastResp["startup"].thrown
    /\ ~HasCall("startup", "logoutDsm")
    /\ pc["cron"] = "done"
    /\ lastResp["cron"].op = "logoutDsm" /\ lastResp["cron"].thrown

\* C20: the return of line 209 is never taken: a poll step ends the run
\* directly only through the inner catch (the call threw, or a successful
\* response had no data), and a poll with success:true and finished:true
\* always assigns folderSizeData and goes on to the stop call.
C20_FinalFailureBranchDead ==
    [][\A r \in Runs :
         (pc[r] = "getFolderSizeStatus" /\ Stepped(r))
         => /\ pc'[r] = "done"
               => \/ lastResp'[r].thrown
                  \/ lastResp'[r].success /\ ~lastResp'[r].hasData
            /\ (/\ ~lastResp'[r].thrown /\ lastResp'[r].success
                /\ lastResp'[r].hasData /\ lastResp'[r].finished)
               => /\ pc'[r] = "stopFinished"
                  /\ folderSizeData' = CompleteMeasurement(lastResp'[r].total_size)]_vars

\* one run got finished:true with success:false and went to the failure
\* path, the other got a finished poll and assigned the cache
C20_Witness ==
    /\ pc["startup"] = "stopRetry"
    /\ lastResp["startup"].op = "getFolderSizeStatus"
    /\ lastResp["startup"].finished /\ ~lastResp["startup"].success
    /\ pc["cron"] = "stopFinished"
    /\ published.run = "cron"
    /\ folderSizeData = CompleteMeasurement(lastResp["cron"].total_size)

====
